---------------------------- MODULE Spec2Model ----------------------------
(***************************************************************************)
(* Framegeist frontend: the consumer of the ASCII frame stream             *)
(* (streamAsciiFrames, api/client.ts), the media upload path               *)
(* (uploadMedia, MediaUpload.onDrop, App.loadConfig, MainContent), the     *)
(* frame player (AsciiPlayer) and the settings form (ConfigSidebar); and   *)
(* the backend's Stream Registry with the client's getStreamStatus.        *)
(*                                                                         *)
(* Text is a sequence of one-character strings; a line is such a sequence  *)
(* without "\n".  The response body is a sequence of bytes: an ASCII byte  *)
(* is written as its character, the three bytes of the glyph U+2588 as     *)
(* "xE2", "x96", "x88".                                                    *)
(***************************************************************************)
EXTENDS Integers, Sequences, FiniteSets, TLC

VARIABLES
    session,      \* what the backend emits for this stream id (frames, trailer)
    stream,       \* the bytes of the response body
    pos,          \* bytes handed out by reader.read() so far
    pending,      \* bytes the TextDecoder holds back (incomplete UTF-8 sequence)
    buffer,       \* `buffer`: text after the last newline seen
    calls,        \* the callbacks invoked so far, in order
    examined,     \* the lines the for-loop has visited, in order
    locked,       \* the reader holds the body's lock
    pc,           \* "fetch" | "read" | "done" (resolved) | "thrown" (rejected)
    response,     \* how fetch settled, "" before it has
    exitPath      \* how streamAsciiFrames was left, "" while it runs

streamVars == <<session, stream, pos, pending, buffer, calls, examined, locked, pc,
                response, exitPath>>

VARIABLES
    appBuild,       \* which of the two App components is built
    config,         \* App: `config`, <<>> for null, <<c>> for an AppConfig c
    configLoad,     \* App.loadConfig: "pending" | "loaded" | "failed"
    configUpdated,  \* App.handleConfigUpdate has run
    sidebarLoaded,  \* ConfigSidebar holds a config (its own getConfig succeeded)
    uploadProgress, \* MediaUpload: `uploadProgress`
    onDropLocals,   \* MediaUpload.onDrop: acceptedFiles, currentMediaType, maxSize
    upload,         \* the uploadMedia promise: idle, sent, resolved, rejected
    frames,         \* MainContent: `frames`
    asciiArt,       \* MainContent: `asciiArt`
    snippet,        \* MainContent: `snippet`
    mediaType,      \* MainContent: `mediaType`
    error,          \* MainContent: `error`
    drops,          \* calls of onDrop
    errorCalls,     \* calls of onError
    uploadCalls,    \* calls of uploadMedia
    completeCalls,  \* calls of onUploadComplete
    inFlight        \* uploadMedia promises not yet settled

uploadVars == <<appBuild, config, configLoad, configUpdated, sidebarLoaded, uploadProgress,
                onDropLocals, upload, frames, asciiArt, snippet, mediaType, error,
                drops, errorCalls, uploadCalls, completeCalls, inFlight>>

VARIABLES
    framesLength,   \* AsciiPlayer: frames.length (prop)
    fps,            \* AsciiPlayer: fps (prop)
    currentFrame,   \* AsciiPlayer: `currentFrame`
    isPlaying,      \* AsciiPlayer: `isPlaying`
    intervalRef,    \* AsciiPlayer: intervalRef.current, 0 for null
    timers,         \* ids of the intervals the browser has active
    timerSeq,       \* the last id setInterval returned
    effectDeps,     \* dependencies of the effect run last, <<>> before the first
    mounted         \* the AsciiPlayer is mounted

playerVars == <<framesLength, fps, currentFrame, isPlaying, intervalRef, timers,
                timerSeq, effectDeps, mounted>>

VARIABLES
    sidebarConfig,  \* ConfigSidebar: `config`, <<>> for null, <<c>> for a config c
    isSaving,       \* ConfigSidebar: `isSaving`
    sidebarRequest, \* the request ConfigSidebar awaits: "none" | "load" | "save" | "reset"
    submitted       \* the config passed to updateConfig last, <<>> before the first

sidebarVars == <<sidebarConfig, isSaving, sidebarRequest, submitted>>

VARIABLES
    registry,       \* Stream Registry: id -> [status, created_at]
    issued,         \* ids issued so far (1..issued)
    staged,         \* ids whose uploaded file is still held
    now,            \* the registry's clock
    consumed,       \* id -> number of begin_consume calls that succeeded
    reply           \* the last operation, its outcome and (getStreamStatus) its value

registryVars == <<registry, issued, staged, now, consumed, reply>>

\* What the actions of one component leave alone.
notStreamVars == <<uploadVars, playerVars, sidebarVars, registryVars>>

notUploadVars == <<streamVars, playerVars, sidebarVars, registryVars>>

notPlayerVars == <<streamVars, uploadVars, sidebarVars, registryVars>>

notSidebarVars == <<streamVars, uploadVars, playerVars, registryVars>>

notRegistryVars == <<streamVars, uploadVars, playerVars, sidebarVars>>

-----------------------------------------------------------------------------
(* Bounds *)

MaxFrames == 2

MaxDrops == 2

MaxTimers == 4

MaxPlayerFrames == 3

MaxIds == 3

MaxClock == 3

-----------------------------------------------------------------------------
(* Strings of the source, as character sequences *)

NL == "\n"

FRAME_PREFIX == <<"F","R","A","M","E",":">>
COMPLETE_PREFIX == <<"C","O","M","P","L","E","T","E",":">>
ERROR_PREFIX == <<"E","R","R","O","R",":">>
END_FRAME == <<"E","N","D","_","F","R","A","M","E">>
UnknownError == <<"U","n","k","n","o","w","n"," ","e","r","r","o","r">>

NaN == "NaN"

Digits == <<"0","1","2","3","4","5","6","7","8","9">>

IsDigit(c) == \E d \in 1..10 : Digits[d] = c

DigitValue(c) == (CHOOSE d \in 1..10 : Digits[d] = c) - 1

-----------------------------------------------------------------------------
(* JavaScript string and array primitives used by the parser *)

\* s.startsWith(p)
StartsWith(s, p) == Len(s) >= Len(p) /\ SubSeq(s, 1, Len(p)) = p

\* s.substring(n)
Substring(s, n) == SubSeq(s, n + 1, Len(s))

\* parseInt(s): skips leading blanks, takes an optional sign and the longest
\* run of decimal digits; NaN when there is no digit.
RECURSIVE ParseDigits(_, _, _)
ParseDigits(s, i, acc) ==
    IF i <= Len(s) /\ IsDigit(s[i])
    THEN ParseDigits(s, i + 1, acc * 10 + DigitValue(s[i]))
    ELSE acc

RECURSIVE SkipBlanks(_, _)
SkipBlanks(s, i) == IF i <= Len(s) /\ s[i] = " " THEN SkipBlanks(s, i + 1) ELSE i

ParseInt(s) ==
    LET b == SkipBlanks(s, 1)
        signed == b <= Len(s) /\ s[b] \in {"-", "+"}
        d == IF signed THEN b + 1 ELSE b
    IN  IF d <= Len(s) /\ IsDigit(s[d])
        THEN (IF signed /\ s[b] = "-" THEN -1 ELSE 1) * ParseDigits(s, d, 0)
        ELSE NaN

\* text.split('\n'): the segments between newlines; k newlines give k+1 segments.
Split(text) ==
    LET nls == {i \in 1..Len(text) : text[i] = NL}
        k == Cardinality(nls)
        \* position of the j-th newline; 0 before the first, Len + 1 after the last
        at(j) == IF j = 0 THEN 0
                 ELSE IF j > k THEN Len(text) + 1
                 ELSE CHOOSE p \in nls : Cardinality({q \in nls : q < p}) = j - 1
    IN  [j \in 1..(k + 1) |-> SubSeq(text, at(j - 1) + 1, at(j) - 1)]

\* arr.indexOf(x, from), 0-based, -1 when absent; a negative `from` counts from
\* the end of the array.
IndexOf(arr, x, from) ==
    LET start == IF from < 0 THEN (IF Len(arr) + from < 0 THEN 0 ELSE Len(arr) + from)
                 ELSE from
        hits == {j \in start..(Len(arr) - 1) : arr[j + 1] = x}
    IN  IF hits = {} THEN -1 ELSE CHOOSE j \in hits : \A k \in hits : j <= k

\* arr.slice(a, b) for 0 <= a
Slice(arr, a, b) == SubSeq(arr, a + 1, b)

\* rows.join('\n')
RECURSIVE Join(_)
Join(rows) ==
    IF Len(rows) = 0 THEN <<>>
    ELSE IF Len(rows) = 1 THEN rows[1]
    ELSE rows[1] \o <<NL>> \o Join(Tail(rows))

-----------------------------------------------------------------------------
(* TextDecoder('utf-8').decode(value, {stream: true}) *)

LeadByte == "xE2"
ContBytes == {"x96", "x88"}
Replacement == "U+FFFD"

\* The character of a complete three-byte sequence E2 c1 c2.
CodePoint(c1, c2) == IF c1 = "x96" /\ c2 = "x88" THEN "U+2588" ELSE "U+2???"

\* What the byte at position i of bs contributes to the decoded text: a
\* character, U+FFFD for a malformed sequence, or nothing (a continuation byte
\* of a sequence already counted, or a sequence still incomplete at the end).
Nothing == ""

DecodeAt(bs, i) ==
    LET n == Len(bs)
        isCont(j) == j >= 1 /\ j <= n /\ bs[j] \in ContBytes
        isLead(j) == j >= 1 /\ j <= n /\ bs[j] = LeadByte
    IN  IF isLead(i) THEN
            IF i = n THEN Nothing
            ELSE IF ~isCont(i + 1) THEN Replacement
            ELSE IF i + 1 = n THEN Nothing
            ELSE IF ~isCont(i + 2) THEN Replacement
            ELSE CodePoint(bs[i + 1], bs[i + 2])
        ELSE IF isCont(i) THEN
            IF isLead(i - 1) \/ (isCont(i - 1) /\ isLead(i - 2)) THEN Nothing
            ELSE Replacement
        ELSE bs[i]

\* The bytes of an incomplete sequence at the end of bs, held for the next call.
HeldBack(bs) ==
    LET n == Len(bs)
    IN  IF n >= 1 /\ bs[n] = LeadByte THEN <<bs[n]>>
        ELSE IF n >= 2 /\ bs[n - 1] = LeadByte /\ bs[n] \in ContBytes
        THEN <<bs[n - 1], bs[n]>>
        ELSE <<>>

IsText(c) == c # Nothing

DecodeBytes(bs) ==
    [text |-> SelectSeq([i \in 1..Len(bs) |-> DecodeAt(bs, i)], IsText),
     pending |-> HeldBack(bs)]

\* decode(value, {stream: true}) with `held` left over from the call before
Decode(held, value) == DecodeBytes(held \o value)

-----------------------------------------------------------------------------
(* The wire format the backend writes (line-oriented, UTF-8) *)

\* A non-negative integer in decimal.
RECURSIVE FormatInt(_)
FormatInt(n) ==
    IF n < 10 THEN <<Digits[n + 1]>>
    ELSE FormatInt(n \div 10) \o <<Digits[(n % 10) + 1]>>

\* UTF-8 bytes of a character, and of a text.
EncodeChar(c) == IF c = "U+2588" THEN <<"xE2", "x96", "x88">> ELSE <<c>>

RECURSIVE Encode(_)
Encode(text) ==
    IF text = <<>> THEN <<>>
    ELSE IF Len(text) = 1 THEN EncodeChar(text[1])
    ELSE LET h == Len(text) \div 2
         IN  Encode(SubSeq(text, 1, h)) \o Encode(SubSeq(text, h + 1, Len(text)))

RECURSIVE WireLines(_)
WireLines(ls) ==
    IF ls = <<>> THEN <<>> ELSE Head(ls) \o <<NL>> \o WireLines(Tail(ls))

\* The lines of one frame: FRAME:<index>, the rows, END_FRAME
FrameLines(f) == <<FRAME_PREFIX \o FormatInt(f.index)>> \o f.rows \o <<END_FRAME>>

RECURSIVE FramesLines(_)
FramesLines(fs) ==
    IF fs = <<>> THEN <<>> ELSE FrameLines(Head(fs)) \o FramesLines(Tail(fs))

\* COMPLETE:<total>, or ERROR: and the message on the next line.
TrailerLines(s) ==
    IF s.trailer = "complete" THEN <<COMPLETE_PREFIX \o FormatInt(s.total)>>
    ELSE IF s.trailer = "error" THEN <<ERROR_PREFIX, s.message>>
    ELSE <<>>

\* What a backend that keeps writing after its trailer would add.
ExtraLines(s) ==
    IF s.extra THEN <<FRAME_PREFIX \o <<"9">>, END_FRAME, COMPLETE_PREFIX \o <<"8">>>>
    ELSE <<>>

SessionLines(s) == FramesLines(s.frames) \o TrailerLines(s) \o ExtraLines(s)

\* The body as text; `terminated` says whether the last line ends with a newline.
WireText(s) ==
    LET t == WireLines(SessionLines(s))
    IN  IF s.terminated THEN t ELSE SubSeq(t, 1, Len(t) - 1)

Wire(s) == Encode(WireText(s))

-----------------------------------------------------------------------------
(* The streams considered *)

\* Rows of the character frame with index i: width 2, glyphs of the ramp
\* "@#. " and of the dense ramp (U+2588).
PlainRows(i) ==
    IF i % 3 = 0 THEN << <<"@", "#">>, <<".", " ">> >>
    ELSE IF i % 3 = 1 THEN << <<".", "U+2588">> >>
    ELSE << <<"#", "@">>, <<" ", " ">> >>

\* Rows a caller-chosen ramp can produce that look like protocol lines.
MarkerRows ==
    { COMPLETE_PREFIX \o <<"9">>, ERROR_PREFIX, FRAME_PREFIX \o <<"7">>, END_FRAME }

ErrorMessage == <<"b", "a", "d">>

PlainFrames(n) == [i \in 1..n |-> [index |-> i - 1, rows |-> PlainRows(i - 1)]]

\* Streams of n plain frames with each trailer, with and without the final
\* newline, with and without text after the trailer.
PlainSessions ==
    { [frames |-> PlainFrames(n), trailer |-> t, total |-> n,
       message |-> ErrorMessage, terminated |-> nl, extra |-> x] :
        n \in 0..MaxFrames, t \in {"complete", "error", "none"},
        nl \in BOOLEAN, x \in BOOLEAN }

\* Streams whose first frame is one row that begins like a protocol line.
MarkerSessions ==
    { [frames |-> [PlainFrames(n) EXCEPT ![1].rows = <<r>>], trailer |-> t, total |-> n,
       message |-> ErrorMessage, terminated |-> TRUE, extra |-> FALSE] :
        n \in 1..MaxFrames, t \in {"complete", "error"}, r \in MarkerRows }

Sessions ==
    { s \in PlainSessions :
        /\ s.extra => (s.terminated /\ s.trailer # "none")
        /\ s.trailer = "none" => s.terminated }
    \cup MarkerSessions

-----------------------------------------------------------------------------
(* streamAsciiFrames *)

OnFrame(frameIndex, frameData) ==
    [cb |-> "onFrame", index |-> frameIndex, data |-> frameData]
OnComplete(totalFrames) == [cb |-> "onComplete", total |-> totalFrames]
OnError(errorMsg) == [cb |-> "onError", msg |-> errorMsg]

\* As SplitBuffer, but the last segment is not popped: the text after the last
\* newline is looped over as if it were a line.
SplitBufferNoPop(text) == [lines |-> Split(text), buffer |-> <<>>]

\* let lines = buffer.split('\n'); buffer = lines.pop() || ''
SplitBuffer(text) ==
    LET segs == Split(text)
    IN  [lines |-> SubSeq(segs, 1, Len(segs) - 1), buffer |-> segs[Len(segs)]]

\* As FrameBranch, delivering the rows seen so far when END_FRAME is not among
\* the lines.
FrameBranchPartial(lines, line, cs) ==
    LET frameIndex == ParseInt(Substring(line, 6))
        frameStart == IndexOf(lines, line, 0)
        frameEndIndex == IndexOf(lines, END_FRAME, frameStart)
    IN  [calls |-> Append(cs, OnFrame(frameIndex,
                    Join(Slice(lines, frameStart + 1,
                               IF frameEndIndex > frameStart THEN frameEndIndex
                               ELSE Len(lines))))),
         returned |-> FALSE]

\* The branch for a line that starts with 'FRAME:'.
FrameBranch(lines, line, cs) ==
    LET frameIndex == ParseInt(Substring(line, 6))
        frameStart == IndexOf(lines, line, 0)
        frameEndIndex == IndexOf(lines, END_FRAME, frameStart)
    IN  IF frameEndIndex > frameStart
        THEN [calls |-> Append(cs, OnFrame(frameIndex,
                                Join(Slice(lines, frameStart + 1, frameEndIndex)))),
              returned |-> FALSE]
        ELSE [calls |-> cs, returned |-> FALSE]

\* As CompleteBranch, without the `return` after onComplete.
CompleteBranchNoReturn(lines, line, cs) ==
    [calls |-> Append(cs, OnComplete(ParseInt(Substring(line, 9)))), returned |-> FALSE]

\* The branch for a line that starts with 'COMPLETE:'.
CompleteBranch(lines, line, cs) ==
    [calls |-> Append(cs, OnComplete(ParseInt(Substring(line, 9)))), returned |-> TRUE]

\* The branch for a line that starts with 'ERROR:'.
ErrorBranch(lines, line, cs) ==
    LET next == IndexOf(lines, line, 0) + 1
        errorMsg == IF next < Len(lines) /\ lines[next + 1] # <<>>
                    THEN lines[next + 1] ELSE UnknownError
    IN  [calls |-> Append(cs, OnError(errorMsg)), returned |-> TRUE]

\* As HandleLine, with the trailer lines compared for equality with the marker
\* instead of tested with startsWith.
HandleLineExact(lines, line, cs) ==
    IF StartsWith(line, FRAME_PREFIX) THEN FrameBranch(lines, line, cs)
    ELSE IF line = COMPLETE_PREFIX THEN CompleteBranch(lines, line, cs)
    ELSE IF line = ERROR_PREFIX THEN ErrorBranch(lines, line, cs)
    ELSE [calls |-> cs, returned |-> FALSE]

\* The body of `for (const line of lines)`.
HandleLine(lines, line, cs) ==
    IF StartsWith(line, FRAME_PREFIX) THEN FrameBranch(lines, line, cs)
    ELSE IF StartsWith(line, COMPLETE_PREFIX) THEN CompleteBranch(lines, line, cs)
    ELSE IF StartsWith(line, ERROR_PREFIX) THEN ErrorBranch(lines, line, cs)
    ELSE [calls |-> cs, returned |-> FALSE]

\* The for-loop from its i-th iteration (0-based) on; it stops at a `return`.
RECURSIVE ForLoop(_, _, _, _)
ForLoop(lines, i, cs, ex) ==
    IF i >= Len(lines) THEN [calls |-> cs, examined |-> ex, returned |-> FALSE]
    ELSE LET step == HandleLine(lines, lines[i + 1], cs)
             seen == Append(ex, lines[i + 1])
         IN  IF step.returned
             THEN [calls |-> step.calls, examined |-> seen, returned |-> TRUE]
             ELSE ForLoop(lines, i + 1, step.calls, seen)

StreamInit ==
    /\ session \in Sessions
    /\ stream = Wire(session)
    /\ pos = 0
    /\ pending = <<>>
    /\ buffer = <<>>
    /\ calls = <<>>
    /\ examined = <<>>
    /\ locked = FALSE
    /\ pc = "fetch"
    /\ response = ""
    /\ exitPath = ""

\* As AfterFetch, without the tests of response.ok and of the reader.
AfterFetchUnchecked(outcome) == IF outcome = "rejects" THEN "thrown" ELSE "read"

\* Where streamAsciiFrames stands once fetch has settled: a rejected fetch, a
\* non-OK status and a missing body all throw; otherwise the loop is entered.
AfterFetch(outcome) == IF outcome = "ok" THEN "read" ELSE "thrown"

\* As LockAfterExit, with releaseLock() placed after the loop instead of in
\* a finally block.
LockReleasedAfterLoop(path) == path # "break"

\* Whether the reader still holds the lock once the try block has been left
\* by the given path: `finally` runs reader.releaseLock() on every path.
LockAfterExit(path) == FALSE

\* As EndOfBody, with the text left in the buffer run through the loop as a
\* last line.
EndOfBodyFlushes(buf, cs, ex) ==
    IF buf = <<>> THEN [calls |-> cs, examined |-> ex]
    ELSE LET run == ForLoop(<<buf>>, 0, cs, ex)
         IN  [calls |-> run.calls, examined |-> run.examined]

\* `if (done) break`: the loop is left with the buffer, the calls made and the
\* lines examined as they are.
EndOfBody(buf, cs, ex) == [calls |-> cs, examined |-> ex]

\* The for-loop from its i-th iteration (0-based) on when the n-th callback
\* call of the run throws: the loop is left by the exception.
RECURSIVE ForLoopThrowing(_, _, _, _, _)
ForLoopThrowing(lines, i, cs, ex, n) ==
    IF i >= Len(lines) THEN [calls |-> cs, examined |-> ex, thrown |-> FALSE]
    ELSE LET step == HandleLine(lines, lines[i + 1], cs)
             seen == Append(ex, lines[i + 1])
         IN  IF Len(step.calls) >= n
             THEN [calls |-> step.calls, examined |-> seen, thrown |-> TRUE]
             ELSE IF step.returned
             THEN [calls |-> step.calls, examined |-> seen, thrown |-> FALSE]
             ELSE ForLoopThrowing(lines, i + 1, step.calls, seen, n)

\* await fetch(...): a rejected fetch, a non-OK status or a missing body
\* throws; otherwise the reader is obtained and holds the lock.
Fetch ==
    /\ pc = "fetch"
    /\ \E outcome \in {"ok", "not_ok", "no_body", "rejects"} :
         /\ response' = outcome
         /\ pc' = AfterFetch(outcome)
         /\ locked' = (outcome = "ok")
         /\ exitPath' = IF outcome = "ok" THEN "" ELSE "throw"
    /\ UNCHANGED <<session, stream, pos, pending, buffer, calls, examined>>
    /\ UNCHANGED notStreamVars

\* reader.read() returns the next chunk, of any size; the chunk is decoded,
\* appended to the buffer, and the complete lines are run through the loop.
ReadChunk ==
    /\ pc = "read"
    /\ pos < Len(stream)
    /\ \E k \in 1..(Len(stream) - pos) :
         LET value == SubSeq(stream, pos + 1, pos + k)
             dec == Decode(pending, value)
             parts == SplitBuffer(buffer \o dec.text)
             run == ForLoop(parts.lines, 0, calls, examined)
         IN  /\ pos' = pos + k
             /\ pending' = dec.pending
             /\ buffer' = parts.buffer
             /\ calls' = run.calls
             /\ examined' = run.examined
             /\ pc' = IF run.returned THEN "done" ELSE "read"
             /\ locked' = IF run.returned THEN LockAfterExit("return") ELSE locked
             /\ exitPath' = IF run.returned THEN "return" ELSE exitPath
    /\ UNCHANGED <<session, stream, response>>
    /\ UNCHANGED notStreamVars

\* As ReadChunk, when one of the callbacks called for the chunk's lines
\* throws: the exception leaves the loop, finally, then it propagates.
CallbackThrows ==
    /\ pc = "read"
    /\ pos < Len(stream)
    /\ \E k \in 1..(Len(stream) - pos) :
         LET value == SubSeq(stream, pos + 1, pos + k)
             dec == Decode(pending, value)
             parts == SplitBuffer(buffer \o dec.text)
             whole == ForLoop(parts.lines, 0, calls, examined)
         IN  \E n \in (Len(calls) + 1)..Len(whole.calls) :
                LET run == ForLoopThrowing(parts.lines, 0, calls, examined, n)
                IN  /\ pos' = pos + k
                    /\ pending' = dec.pending
                    /\ buffer' = parts.buffer
                    /\ calls' = run.calls
                    /\ examined' = run.examined
                    /\ pc' = "thrown"
                    /\ locked' = LockAfterExit("callback_throws")
                    /\ exitPath' = "callback_throws"
    /\ UNCHANGED <<session, stream, response>>
    /\ UNCHANGED notStreamVars

\* reader.read() reports done: break, finally, resolve.
ReadDone ==
    /\ pc = "read"
    /\ pos = Len(stream)
    /\ calls' = EndOfBody(buffer, calls, examined).calls
    /\ examined' = EndOfBody(buffer, calls, examined).examined
    /\ pc' = "done"
    /\ locked' = LockAfterExit("break")
    /\ exitPath' = "break"
    /\ UNCHANGED <<session, stream, pos, pending, buffer, response>>
    /\ UNCHANGED notStreamVars

\* reader.read() rejects (the connection fails): finally, then the rejection
\* propagates.
ReadFails ==
    /\ pc = "read"
    /\ pc' = "thrown"
    /\ locked' = LockAfterExit("read_throws")
    /\ exitPath' = "read_throws"
    /\ UNCHANGED <<session, stream, pos, pending, buffer, calls, examined, response>>
    /\ UNCHANGED notStreamVars

StreamNext == Fetch \/ ReadChunk \/ CallbackThrows \/ ReadDone \/ ReadFails

\* Before streamAsciiFrames is called.
StreamIdle ==
    /\ session = [frames |-> <<>>, trailer |-> "none", total |-> 0,
                  message |-> <<>>, terminated |-> TRUE, extra |-> FALSE]
    /\ stream = <<>>
    /\ pos = 0
    /\ pending = <<>>
    /\ buffer = <<>>
    /\ calls = <<>>
    /\ examined = <<>>
    /\ locked = FALSE
    /\ pc = "fetch"
    /\ response = ""
    /\ exitPath = ""

-----------------------------------------------------------------------------
(* App, MediaUpload and MainContent: configuration and upload *)

MB == 1024 * 1024

DocImageLimitMB == 5
DocVideoLimitMB == 10

IMAGE_SLASH == <<"i","m","a","g","e","/">>

\* As DefaultConfig, with the two limits exchanged.
DefaultConfigSwapped ==
    [image_max_size |-> 10 * 1024 * 1024, video_max_size |-> 5 * 1024 * 1024,
     ascii_width |-> 80, default_fps |-> 10]

\* App.setDefaultConfig
DefaultConfig ==
    [image_max_size |-> 5 * 1024 * 1024, video_max_size |-> 10 * 1024 * 1024,
     ascii_width |-> 80, default_fps |-> 10]

\* Configurations the backend returns: limits within the documented range of
\* 1 MB to 500 MB.
BackendConfigs ==
    { [image_max_size |-> 1 * MB, video_max_size |-> 500 * MB,
       ascii_width |-> 80, default_fps |-> 10],
      [image_max_size |-> 100 * MB, video_max_size |-> 1 * MB,
       ascii_width |-> 80, default_fps |-> 10] }

\* Files a user can drop: a MIME type and a size in bytes.
FileTypes ==
    { <<"i","m","a","g","e","/","p","n","g">>, <<"v","i","d","e","o","/","m","p","4">>, <<>> }

FileSizes ==
    { 1 * MB, 1 * MB + 1, 5 * MB, 5 * MB + 1, 10 * MB, 10 * MB + 1, 500 * MB + 1 }

Files == [type : FileTypes, size : FileSizes]

\* Bodies the upload endpoints answer with (MediaUploadResponse).
UploadResponses ==
    { [success |-> TRUE, frames |-> <<"frame0", "frame1">>, ascii_art |-> "", snippet |-> "html", error |-> ""],
      [success |-> TRUE, frames |-> <<>>, ascii_art |-> "art", snippet |-> "html", error |-> ""],
      [success |-> TRUE, frames |-> <<>>, ascii_art |-> "", snippet |-> "", error |-> ""],
      [success |-> FALSE, frames |-> <<>>, ascii_art |-> "", snippet |-> "", error |-> "Unsupported file"],
      [success |-> FALSE, frames |-> <<>>, ascii_art |-> "", snippet |-> "", error |-> ""] }

NoResponse == [success |-> FALSE, frames |-> <<>>, ascii_art |-> "", snippet |-> "", error |-> ""]

\* xhr.status of a response that arrived.
HttpStatuses == {200, 299, 300, 500}

\* The messages uploadMedia rejects with.
ParseFailure == <<"Failed to parse server response.">>

NetworkFailure == <<"Upload failed due to a network error.">>

StatusFailure(status) == <<"Upload failed with status: ">> \o FormatInt(status)

\* getMediaType
GetMediaType(file) == IF StartsWith(file.type, IMAGE_SLASH) THEN "image" ELSE "video"

\* Math.round(a / b) for positive a, b
RoundDiv(a, b) == (2 * a + b) \div (2 * b)

\* As MaxSize, choosing the limit of the other media type.
MaxSizeSwapped(cfg, currentMediaType) ==
    IF currentMediaType = "image"
    THEN (IF cfg # <<>> /\ cfg[1].video_max_size # 0 THEN cfg[1].video_max_size
          ELSE 10 * 1024 * 1024)
    ELSE (IF cfg # <<>> /\ cfg[1].image_max_size # 0 THEN cfg[1].image_max_size
          ELSE 5 * 1024 * 1024)

\* maxSize: config?.image_max_size || 5 MB for an image, config?.video_max_size
\* || 10 MB otherwise; a null config or a zero limit gives the default.
MaxSize(cfg, currentMediaType) ==
    IF currentMediaType = "image"
    THEN (IF cfg # <<>> /\ cfg[1].image_max_size # 0 THEN cfg[1].image_max_size
          ELSE 5 * 1024 * 1024)
    ELSE (IF cfg # <<>> /\ cfg[1].video_max_size # 0 THEN cfg[1].video_max_size
          ELSE 10 * 1024 * 1024)

\* `File size must be less than ${sizeLimit}MB for ${currentMediaType}s.`
TooLargeMessage(maxSize, currentMediaType) ==
    <<"File size must be less than ">> \o FormatInt(RoundDiv(maxSize, MB))
        \o <<"MB for ", currentMediaType, "s.">>

IdleProgress == [isUploading |-> FALSE, progress |-> 0, message |-> "", mediaType |-> "null"]

\* The uploadMedia promise: its state, the value or reason it settled with, and
\* the xhr.status and parse outcome of the response (0 and FALSE without one).
NoUpload ==
    [state |-> "idle", result |-> NoResponse, reason |-> <<>>, status |-> 0, parsed |-> FALSE]

\* As HasContent, looking at the frames only.
HasContentFramesOnly == Len(frames) > 0

\* hasContent = frames.length > 0 || asciiArt
HasContent == Len(frames) > 0 \/ asciiArt # ""

\* As ShowsUploadForm, with MediaUpload rendered next to the result view.
ShowsUploadFormAlways == TRUE

\* MainContent's render: {!hasContent ? <MediaUpload .../> : <result view>}
ShowsUploadForm == ~HasContent

\* The other branch of the conditional: the result view with the
\* "Upload New Media" button.
ShowsResult == HasContent

\* {mediaType === 'video' && frames.length > 0 && <AsciiPlayer .../>}, inside
\* the result view.
ShowsPlayer == ShowsResult /\ mediaType = "video" /\ Len(frames) > 0

\* {mediaType === 'image' && asciiArt && <AsciiImage .../>}, inside the result
\* view.
ShowsImage == ShowsResult /\ mediaType = "image" /\ asciiArt # ""

\* {error && <div>...</div>}
ShowsError == error # <<>>

UploadInit ==
    /\ appBuild \in {"App", "AppWithDefaults"}
    /\ config = <<>>
    /\ configLoad = "pending"
    /\ configUpdated = FALSE
    /\ sidebarLoaded = FALSE
    /\ uploadProgress = IdleProgress
    /\ onDropLocals = [acceptedFiles |-> <<>>,
                       currentMediaType |-> "null", maxSize |-> 0]
    /\ upload = NoUpload
    /\ frames = <<>>
    /\ asciiArt = ""
    /\ snippet = ""
    /\ mediaType = "null"
    /\ error = <<>>
    /\ drops = 0
    /\ errorCalls = 0
    /\ uploadCalls = 0
    /\ completeCalls = 0
    /\ inFlight = 0

\* The continuation of onDrop after `await uploadMedia` runs before any other
\* event is handled.
NoContinuationDue == upload.state \in {"idle", "sent"}

\* App.loadConfig: getConfig resolves with success true.
LoadConfigOk ==
    /\ configLoad = "pending"
    /\ NoContinuationDue
    /\ \E c \in BackendConfigs : config' = <<c>>
    /\ configLoad' = "loaded"
    /\ UNCHANGED <<appBuild, configUpdated, sidebarLoaded, uploadProgress, onDropLocals,
                   upload, frames, asciiArt, snippet, mediaType, error,
                   drops, errorCalls, uploadCalls, completeCalls, inFlight>>
    /\ UNCHANGED notUploadVars

\* App.loadConfig: getConfig throws, or resolves with success false.  The App
\* with setDefaultConfig installs the default config; the other leaves null.
LoadConfigFail ==
    /\ configLoad = "pending"
    /\ NoContinuationDue
    /\ \E how \in {"throws", "success_false"} :
         config' = IF appBuild = "AppWithDefaults" THEN <<DefaultConfig>> ELSE config
    /\ configLoad' = "failed"
    /\ UNCHANGED <<appBuild, configUpdated, sidebarLoaded, uploadProgress, onDropLocals,
                   upload, frames, asciiArt, snippet, mediaType, error,
                   drops, errorCalls, uploadCalls, completeCalls, inFlight>>
    /\ UNCHANGED notUploadVars

\* ConfigSidebar.loadConfig succeeds: the sidebar shows its form.
SidebarLoad ==
    /\ ~sidebarLoaded
    /\ NoContinuationDue
    /\ sidebarLoaded' = TRUE
    /\ UNCHANGED <<appBuild, config, configLoad, configUpdated, uploadProgress,
                   onDropLocals, upload, frames, asciiArt, snippet, mediaType, error,
                   drops, errorCalls, uploadCalls, completeCalls, inFlight>>
    /\ UNCHANGED notUploadVars

\* ConfigSidebar.handleSave / handleReset succeed: onConfigUpdate(response.config)
\* reaches App.handleConfigUpdate.
HandleConfigUpdate ==
    /\ sidebarLoaded
    /\ NoContinuationDue
    /\ \E c \in BackendConfigs : config' = <<c>>
    /\ configUpdated' = TRUE
    /\ UNCHANGED <<appBuild, configLoad, sidebarLoaded, uploadProgress, onDropLocals,
                   upload, frames, asciiArt, snippet, mediaType, error,
                   drops, errorCalls, uploadCalls, completeCalls, inFlight>>
    /\ UNCHANGED notUploadVars

\* As DropzoneDisabled, with the dropzone never disabled.
DropzoneNeverDisabled == FALSE

\* useDropzone({ ..., disabled: uploadProgress.isUploading })
DropzoneDisabled == uploadProgress.isUploading

\* MediaUpload.onDrop up to the call of uploadMedia.  The dropzone is rendered
\* while MainContent has no content and is disabled while uploading.
OnDrop ==
    /\ ShowsUploadForm
    /\ ~DropzoneDisabled
    /\ NoContinuationDue
    /\ drops < MaxDrops
    /\ drops' = drops + 1
    /\ \E acceptedFiles \in {<<>>} \cup {<<f>> : f \in Files} :
         IF acceptedFiles = <<>>
         THEN /\ onDropLocals' = [acceptedFiles |-> <<>>,
                                  currentMediaType |-> "null", maxSize |-> 0]
              /\ UNCHANGED <<uploadProgress, upload, error, errorCalls, uploadCalls,
                             inFlight>>
         ELSE LET file == acceptedFiles[1]
                  currentMediaType == GetMediaType(file)
                  maxSize == MaxSize(config, currentMediaType)
              IN  /\ onDropLocals' = [acceptedFiles |-> acceptedFiles,
                                      currentMediaType |-> currentMediaType,
                                      maxSize |-> maxSize]
                  /\ IF file.size > maxSize
                     THEN /\ error' = TooLargeMessage(maxSize, currentMediaType)
                          /\ errorCalls' = errorCalls + 1
                          /\ UNCHANGED <<uploadProgress, upload, uploadCalls, inFlight>>
                     ELSE /\ uploadProgress' = [isUploading |-> TRUE, progress |-> 0,
                                                message |-> "Preparing to upload...",
                                                mediaType |-> currentMediaType]
                          /\ upload' = [NoUpload EXCEPT !.state = "sent"]
                          /\ uploadCalls' = uploadCalls + 1
                          /\ inFlight' = inFlight + 1
                          /\ UNCHANGED <<error, errorCalls>>
    /\ UNCHANGED <<appBuild, config, configLoad, configUpdated, sidebarLoaded,
                   frames, asciiArt, snippet, mediaType, completeCalls>>
    /\ UNCHANGED notUploadVars

\* handleUploadProgress(percentage)
ProgressState(percentage, currentMediaType) ==
    [isUploading |-> TRUE, progress |-> percentage,
     message |-> IF percentage < 100 THEN "Uploading" ELSE "Processing",
     mediaType |-> currentMediaType]

\* xhr.upload.onprogress
UploadProgressEvent ==
    /\ upload.state = "sent"
    /\ \E percentage \in {0, 50, 100} :
         uploadProgress' = ProgressState(percentage, onDropLocals.currentMediaType)
    /\ UNCHANGED <<appBuild, config, configLoad, configUpdated, sidebarLoaded,
                   onDropLocals, upload, frames, asciiArt, snippet, mediaType, error,
                   drops, errorCalls, uploadCalls, completeCalls, inFlight>>
    /\ UNCHANGED notUploadVars

\* As OnLoad, without the test of xhr.status.
OnLoadAnyStatus(status, parsed) == IF parsed THEN "resolve" ELSE "reject_parse"

\* xhr.onload: how the promise settles, given xhr.status and whether
\* JSON.parse(xhr.responseText) returns.
OnLoad(status, parsed) ==
    IF status >= 200 /\ status < 300
    THEN (IF parsed THEN "resolve" ELSE "reject_parse")
    ELSE "reject_status"

\* xhr.onload: onProgressCallback(100), then resolve or reject.
XhrOnLoad ==
    /\ upload.state = "sent"
    /\ uploadProgress' = ProgressState(100, onDropLocals.currentMediaType)
    /\ \E status \in HttpStatuses : \E parsed \in BOOLEAN : \E r \in UploadResponses :
         upload' =
            CASE OnLoad(status, parsed) = "resolve" ->
                   [state |-> "resolved", result |-> r, reason |-> <<>>,
                    status |-> status, parsed |-> parsed]
              [] OnLoad(status, parsed) = "reject_parse" ->
                   [state |-> "rejected", result |-> NoResponse, reason |-> ParseFailure,
                    status |-> status, parsed |-> parsed]
              [] OTHER ->
                   [state |-> "rejected", result |-> NoResponse,
                    reason |-> StatusFailure(status),
                    status |-> status, parsed |-> parsed]
    /\ inFlight' = inFlight - 1
    /\ UNCHANGED <<appBuild, config, configLoad, configUpdated, sidebarLoaded,
                   onDropLocals, frames, asciiArt, snippet, mediaType, error,
                   drops, errorCalls, uploadCalls, completeCalls>>
    /\ UNCHANGED notUploadVars

\* xhr.onerror: onProgressCallback(100), then reject.
XhrOnError ==
    /\ upload.state = "sent"
    /\ uploadProgress' = ProgressState(100, onDropLocals.currentMediaType)
    /\ upload' = [state |-> "rejected", result |-> NoResponse, reason |-> NetworkFailure,
                  status |-> 0, parsed |-> FALSE]
    /\ inFlight' = inFlight - 1
    /\ UNCHANGED <<appBuild, config, configLoad, configUpdated, sidebarLoaded,
                   onDropLocals, frames, asciiArt, snippet, mediaType, error,
                   drops, errorCalls, uploadCalls, completeCalls>>
    /\ UNCHANGED notUploadVars

\* As Outcome, taking every settled upload for a success.
OutcomeAlwaysComplete(u) == "complete"

\* Which callback the continuation of onDrop calls for the settled promise u:
\* onUploadComplete if it resolved with success true, onError otherwise.
Outcome(u) == IF u.state = "resolved" /\ u.result.success THEN "complete" ELSE "error"

\* As ProgressAfter, with the reset at the end of the try block.
ProgressAfterTry(u) ==
    IF u.state = "resolved" THEN IdleProgress ELSE ProgressState(100, "null")

\* uploadProgress once the continuation of onDrop has run for the settled
\* promise u: the reset in `finally`.
ProgressAfter(u) == IdleProgress

\* onDrop after `await uploadMedia`: onUploadComplete (handleUploadComplete)
\* or onError (handleError), then the reset in `finally`.
AfterUpload ==
    /\ upload.state \in {"resolved", "rejected"}
    /\ IF Outcome(upload) = "complete"
       THEN /\ frames' = upload.result.frames
            /\ asciiArt' = upload.result.ascii_art
            /\ snippet' = upload.result.snippet
            /\ mediaType' = onDropLocals.currentMediaType
            /\ error' = <<>>
            /\ completeCalls' = completeCalls + 1
            /\ UNCHANGED errorCalls
       ELSE /\ error' = IF upload.state = "rejected" THEN upload.reason
                        ELSE IF upload.result.error # "" THEN <<upload.result.error>>
                        ELSE <<"Upload failed for ", onDropLocals.currentMediaType, ".">>
            /\ errorCalls' = errorCalls + 1
            /\ UNCHANGED <<frames, asciiArt, snippet, mediaType, completeCalls>>
    /\ uploadProgress' = ProgressAfter(upload)
    /\ upload' = NoUpload
    /\ UNCHANGED <<appBuild, config, configLoad, configUpdated, sidebarLoaded,
                   onDropLocals, drops, uploadCalls, inFlight>>
    /\ UNCHANGED notUploadVars

\* MainContent.resetContent ("Upload New Media")
ResetContent ==
    /\ ShowsResult
    /\ NoContinuationDue
    /\ frames' = <<>>
    /\ asciiArt' = ""
    /\ snippet' = ""
    /\ mediaType' = "null"
    /\ error' = <<>>
    /\ UNCHANGED <<appBuild, config, configLoad, configUpdated, sidebarLoaded,
                   uploadProgress, onDropLocals, upload,
                   drops, errorCalls, uploadCalls, completeCalls, inFlight>>
    /\ UNCHANGED notUploadVars

UploadNext ==
    \/ LoadConfigOk \/ LoadConfigFail \/ SidebarLoad \/ HandleConfigUpdate
    \/ OnDrop \/ UploadProgressEvent \/ XhrOnLoad \/ XhrOnError \/ AfterUpload
    \/ ResetContent

\* Before anything is dropped: the App that installs defaults, still loading.
UploadIdle == UploadInit /\ appBuild = "AppWithDefaults"

-----------------------------------------------------------------------------
(* AsciiPlayer: playback of the frames                                      *)
(*                                                                         *)
(* The browser's interval timers are the set `timers`; setInterval returns *)
(* a fresh positive id.  The effect and its cleanup work on the record     *)
(* [intervalRef, timers, timerSeq].  React 18 runs the effects of a click  *)
(* before the click returns, and those of a changed prop after the render. *)

DefaultFps == 10

FpsValues == {10, 30}

\* setInterval(...) assigned to intervalRef.current
SetInterval(t) ==
    [intervalRef |-> t.timerSeq + 1,
     timers |-> t.timers \cup {t.timerSeq + 1},
     timerSeq |-> t.timerSeq + 1]

\* As EffectCleanup, leaving the interval running.
EffectCleanupKeeps(t) == t

\* The function the effect returns: clearInterval(intervalRef.current) if set.
EffectCleanup(t) ==
    IF t.intervalRef # 0 THEN [t EXCEPT !.timers = @ \ {t.intervalRef}] ELSE t

\* The body of the effect.
EffectBody(t, playing, length) ==
    IF playing /\ length > 0
    THEN SetInterval(t)
    ELSE IF t.intervalRef # 0
         THEN [t EXCEPT !.timers = @ \ {t.intervalRef}, !.intervalRef = 0]
         ELSE t

\* One run of the effect for the dependencies deps = <<isPlaying, frames.length,
\* fps>>: the cleanup of the previous run (if there was one), then the body.
RunEffect(t, ran, deps) ==
    EffectBody(IF ran THEN EffectCleanup(t) ELSE t, deps[1], deps[2])

\* React runs the effect when a dependency differs from the last run's.
FlushEffect(t, ranDeps, deps) ==
    IF ranDeps = deps THEN t ELSE RunEffect(t, ranDeps # <<>>, deps)

PlayerTimers == [intervalRef |-> intervalRef, timers |-> timers, timerSeq |-> timerSeq]

PlayerInit ==
    /\ framesLength \in 0..MaxPlayerFrames
    /\ fps = DefaultFps
    /\ currentFrame = 0
    /\ isPlaying = TRUE
    /\ intervalRef = 0
    /\ timers = {}
    /\ timerSeq = 0
    /\ effectDeps = <<>>
    /\ mounted = TRUE

\* The effect runs after a render whose dependencies changed (and after mount).
PlayerEffect ==
    /\ mounted
    /\ effectDeps # <<isPlaying, framesLength, fps>>
    /\ LET t == FlushEffect(PlayerTimers, effectDeps, <<isPlaying, framesLength, fps>>)
       IN  /\ intervalRef' = t.intervalRef
           /\ timers' = t.timers
           /\ timerSeq' = t.timerSeq
    /\ effectDeps' = <<isPlaying, framesLength, fps>>
    /\ UNCHANGED <<framesLength, fps, currentFrame, isPlaying, mounted>>
    /\ UNCHANGED notPlayerVars

\* togglePlayback (click): setIsPlaying(!isPlaying); effects still due are run
\* first, and the effect of this render runs before the click returns.
TogglePlayback ==
    /\ mounted
    /\ framesLength > 0
    /\ timerSeq + 2 <= MaxTimers
    /\ isPlaying' = ~isPlaying
    /\ LET due == FlushEffect(PlayerTimers, effectDeps, <<isPlaying, framesLength, fps>>)
           t == FlushEffect(due, <<isPlaying, framesLength, fps>>,
                            <<~isPlaying, framesLength, fps>>)
       IN  /\ intervalRef' = t.intervalRef
           /\ timers' = t.timers
           /\ timerSeq' = t.timerSeq
    /\ effectDeps' = <<~isPlaying, framesLength, fps>>
    /\ UNCHANGED <<framesLength, fps, currentFrame, mounted>>
    /\ UNCHANGED notPlayerVars

\* The parent renders the player with another fps.
SetFps ==
    /\ mounted
    /\ timerSeq + 2 <= MaxTimers
    /\ \E f \in FpsValues \ {fps} : fps' = f
    /\ UNCHANGED <<framesLength, currentFrame, isPlaying, intervalRef, timers,
                   timerSeq, effectDeps, mounted>>
    /\ UNCHANGED notPlayerVars

\* An active interval fires: setCurrentFrame((prev) => (prev + 1) % frames.length)
Tick ==
    /\ \E id \in timers : currentFrame' = (currentFrame + 1) % framesLength
    /\ UNCHANGED <<framesLength, fps, isPlaying, intervalRef, timers, timerSeq,
                   effectDeps, mounted>>
    /\ UNCHANGED notPlayerVars

\* The player is unmounted: the cleanup of the last effect runs.
Unmount ==
    /\ mounted
    /\ mounted' = FALSE
    /\ LET t == IF effectDeps # <<>> THEN EffectCleanup(PlayerTimers) ELSE PlayerTimers
       IN  /\ intervalRef' = t.intervalRef
           /\ timers' = t.timers
           /\ timerSeq' = t.timerSeq
    /\ UNCHANGED <<framesLength, fps, currentFrame, isPlaying, effectDeps>>
    /\ UNCHANGED notPlayerVars

PlayerNext == PlayerEffect \/ TogglePlayback \/ SetFps \/ Tick \/ Unmount

\* A player without frames: it renders nothing and starts no interval.
PlayerIdle == PlayerInit /\ framesLength = 0

-----------------------------------------------------------------------------
(* ConfigSidebar: the settings form                                         *)
(*                                                                         *)
(* A field of the form holds a JavaScript number: <<n>> for the number n,  *)
(* <<>> for NaN.                                                           *)

Num(n) == <<n>>

\* parseInt(text) gives a number (the text starts, after blanks and a sign,
\* with a digit).
IsNumeric(text) ==
    LET b == SkipBlanks(text, 1)
        d == IF b <= Len(text) /\ text[b] \in {"-", "+"} THEN b + 1 ELSE b
    IN  d <= Len(text) /\ IsDigit(text[d])

\* parseInt(e.target.value)
ParseField(text) == IF IsNumeric(text) THEN Num(ParseInt(text)) ELSE <<>>

\* x * k for JavaScript numbers
Times(x, k) == IF x = <<>> THEN <<>> ELSE Num(x[1] * k)

\* What a user types into the number inputs (e.target.value): nothing, values
\* inside and outside the inputs' min and max.
TypedWidths == { <<>>, <<"0">>, <<"2","0">>, <<"2","0","0">>, <<"2","0","1">> }

TypedFps == { <<>>, <<"0">>, <<"1">>, <<"6","0">>, <<"6","1">> }

TypedSizes == { <<"1">>, <<"5","0","0">> }

\* The config object the form holds for a config the backend returned.
FormConfig(c) ==
    [image_max_size |-> Num(c.image_max_size), video_max_size |-> Num(c.video_max_size),
     ascii_width |-> Num(c.ascii_width), default_fps |-> Num(c.default_fps)]

SidebarInit ==
    /\ sidebarConfig = <<>>
    /\ isSaving = FALSE
    /\ sidebarRequest = "load"
    /\ submitted = <<>>

\* loadConfig after `await getConfig()`: setConfig(response.config) on success.
SidebarLoadSettles ==
    /\ sidebarRequest = "load"
    /\ \/ \E c \in BackendConfigs : sidebarConfig' = <<FormConfig(c)>>
       \/ \E how \in {"throws", "success_false"} : UNCHANGED sidebarConfig
    /\ sidebarRequest' = "none"
    /\ UNCHANGED <<isSaving, submitted>>
    /\ UNCHANGED notSidebarVars

\* updateField(field, value): setConfig({ ...config, [field]: value })
UpdateField(field, value) ==
    /\ sidebarConfig # <<>>
    /\ sidebarConfig' = <<[sidebarConfig[1] EXCEPT ![field] = value]>>
    /\ UNCHANGED <<isSaving, sidebarRequest, submitted>>
    /\ UNCHANGED notSidebarVars

\* onChange of the four number inputs
ChangeImageMaxSize ==
    \E text \in TypedSizes : UpdateField("image_max_size", Times(Times(ParseField(text), 1024), 1024))

ChangeVideoMaxSize ==
    \E text \in TypedSizes : UpdateField("video_max_size", Times(Times(ParseField(text), 1024), 1024))

ChangeAsciiWidth ==
    \E text \in TypedWidths : UpdateField("ascii_width", ParseField(text))

ChangeDefaultFps ==
    \E text \in TypedFps : UpdateField("default_fps", ParseField(text))

\* handleSave up to `await updateConfig(config)`; the button is disabled while
\* saving.
HandleSave ==
    /\ sidebarConfig # <<>>
    /\ ~isSaving
    /\ sidebarRequest = "none"
    /\ isSaving' = TRUE
    /\ submitted' = sidebarConfig
    /\ sidebarRequest' = "save"
    /\ UNCHANGED sidebarConfig
    /\ UNCHANGED notSidebarVars

\* handleReset up to `await resetConfig()`
HandleReset ==
    /\ sidebarConfig # <<>>
    /\ ~isSaving
    /\ sidebarRequest = "none"
    /\ isSaving' = TRUE
    /\ sidebarRequest' = "reset"
    /\ UNCHANGED <<sidebarConfig, submitted>>
    /\ UNCHANGED notSidebarVars

\* handleSave / handleReset after the await: on success onConfigUpdate(
\* response.config) reaches App.handleConfigUpdate, and a reset installs the
\* returned config in the form; `finally` clears isSaving.
SidebarRequestSettles ==
    /\ sidebarRequest \in {"save", "reset"}
    /\ \/ \E c \in BackendConfigs :
            /\ config' = <<c>>
            /\ configUpdated' = TRUE
            /\ sidebarConfig' = IF sidebarRequest = "reset" THEN <<FormConfig(c)>>
                                ELSE sidebarConfig
       \/ \E how \in {"throws", "success_false"} :
            UNCHANGED <<config, configUpdated, sidebarConfig>>
    /\ isSaving' = FALSE
    /\ sidebarRequest' = "none"
    /\ UNCHANGED submitted
    /\ UNCHANGED <<appBuild, configLoad, sidebarLoaded, uploadProgress, onDropLocals,
                   upload, frames, asciiArt, snippet, mediaType, error,
                   drops, errorCalls, uploadCalls, completeCalls, inFlight>>
    /\ UNCHANGED <<streamVars, playerVars, registryVars>>

SidebarNext ==
    \/ SidebarLoadSettles
    \/ ChangeImageMaxSize \/ ChangeVideoMaxSize \/ ChangeAsciiWidth \/ ChangeDefaultFps
    \/ HandleSave \/ HandleReset \/ SidebarRequestSettles

\* The sidebar left alone.
SidebarIdle == SidebarInit

-----------------------------------------------------------------------------
(* Stream Registry (backend) and the client's getStreamStatus               *)
(*                                                                         *)
(* One session per issued id; registry operations on a session are atomic. *)
(* A reply is [op, id, result, body]; result is "ok" or the name of the     *)
(* error, body the value getStreamStatus returned.                          *)

\* The configured time-to-live of a session that is not being consumed.
TTL == 2

\* The configured maximum of concurrent sessions.
MaxSessions == 2

Ids == 1..MaxIds

\* Ids a request can carry: 0 is never issued.
RequestIds == 0..MaxIds

NoSession == [status |-> "none", created_at |-> 0]

Known(id) == id \in 1..issued

StatusOf(id) == IF Known(id) THEN registry[id].status ELSE "none"

\* Sessions that count against the capacity.
Live == { id \in Ids : StatusOf(id) \in {"registered", "ready", "consuming"} }

\* Older than the TTL while registered or ready.
Stale(id) ==
    /\ StatusOf(id) \in {"registered", "ready"}
    /\ now - registry[id].created_at > TTL

NoBody == [stream_id |-> 0, status |-> "", ready |-> FALSE]

Reply(op, id, result) == [op |-> op, id |-> id, result |-> result, body |-> NoBody]

RegistryInit ==
    /\ registry = [id \in Ids |-> NoSession]
    /\ issued = 0
    /\ staged = {}
    /\ now = 0
    /\ consumed = [id \in Ids |-> 0]
    /\ reply = Reply("none", 0, "ok")

\* register(file)
Register ==
    /\ issued < MaxIds
    /\ IF Cardinality(Live) >= MaxSessions
       THEN /\ reply' = Reply("register", 0, "CapacityError")
            /\ UNCHANGED <<registry, issued, staged>>
       ELSE /\ issued' = issued + 1
            /\ registry' = [registry EXCEPT ![issued + 1] =
                                [status |-> "registered", created_at |-> now]]
            /\ staged' = staged \cup {issued + 1}
            /\ reply' = Reply("register", issued + 1, "ok")
    /\ UNCHANGED <<now, consumed>>
    /\ UNCHANGED notRegistryVars

\* mark_ready(id): registered -> ready; NotFoundError if the id is unknown or
\* the session is past ready.  On a session already ready the outcome is open.
MarkReady ==
    /\ \E id \in RequestIds :
         CASE StatusOf(id) = "registered" ->
                /\ registry' = [registry EXCEPT ![id].status = "ready"]
                /\ reply' = Reply("mark_ready", id, "ok")
           [] StatusOf(id) = "ready" ->
                /\ \E result \in {"ok", "NotFoundError"} :
                     reply' = Reply("mark_ready", id, result)
                /\ UNCHANGED registry
           [] OTHER ->
                /\ reply' = Reply("mark_ready", id, "NotFoundError")
                /\ UNCHANGED registry
    /\ UNCHANGED <<issued, staged, now, consumed>>
    /\ UNCHANGED notRegistryVars

\* As BeginConsumeOutcome, admitting a consumer to a session being consumed.
BeginConsumeAgain(status) ==
    CASE status \in {"ready", "consuming"} -> {"ok"}
      [] status \in {"completed", "failed"} -> {"ConflictError"}
      [] status = "registered" -> {"NotFoundError", "ConflictError"}
      [] OTHER -> {"NotFoundError"}

\* The outcomes of begin_consume on a session of the given status: ready ->
\* consuming; ConflictError if consuming or beyond; an unknown or expired id
\* is not found.  On a session not yet ready it fails, with either error.
BeginConsumeOutcome(status) ==
    CASE status = "ready" -> {"ok"}
      [] status \in {"consuming", "completed", "failed"} -> {"ConflictError"}
      [] status = "registered" -> {"NotFoundError", "ConflictError"}
      [] OTHER -> {"NotFoundError"}

\* begin_consume(id)
BeginConsume ==
    /\ \E id \in RequestIds : \E result \in BeginConsumeOutcome(StatusOf(id)) :
         /\ reply' = Reply("begin_consume", id, result)
         /\ IF result = "ok"
            THEN /\ registry' = [registry EXCEPT ![id].status = "consuming"]
                 /\ consumed' = [consumed EXCEPT ![id] = @ + 1]
            ELSE UNCHANGED <<registry, consumed>>
    /\ UNCHANGED <<issued, staged, now>>
    /\ UNCHANGED notRegistryVars

\* complete(id) / fail(id, reason), called by the emitter of a session being
\* consumed: terminal state, the file is evicted.
Finish ==
    /\ \E id \in Ids : \E op \in {"complete", "fail"} :
         /\ StatusOf(id) = "consuming"
         /\ registry' = [registry EXCEPT ![id].status =
                             IF op = "complete" THEN "completed" ELSE "failed"]
         /\ staged' = staged \ {id}
         /\ reply' = Reply(op, id, "ok")
    /\ UNCHANGED <<issued, now, consumed>>
    /\ UNCHANGED notRegistryVars

\* As SweepExpires, expiring every session older than the TTL that has not
\* reached a terminal state.
SweepExpiresActive(id) ==
    /\ StatusOf(id) \in {"registered", "ready", "consuming"}
    /\ now - registry[id].created_at > TTL

\* The sessions the background sweep expires.
SweepExpires(id) == Stale(id)

\* Background sweep
Sweep ==
    /\ \E id \in Ids : SweepExpires(id)
    /\ registry' = [id \in Ids |->
                       IF SweepExpires(id) THEN [registry[id] EXCEPT !.status = "expired"]
                       ELSE registry[id]]
    /\ staged' = staged \ { id \in Ids : SweepExpires(id) }
    /\ reply' = Reply("sweep", 0, "ok")
    /\ UNCHANGED <<issued, now, consumed>>
    /\ UNCHANGED notRegistryVars

\* Time passes.
ClockTick ==
    /\ now < MaxClock
    /\ now' = now + 1
    /\ UNCHANGED <<registry, issued, staged, consumed, reply>>
    /\ UNCHANGED notRegistryVars

\* As Readiness, reporting the session's own status.
ReadinessRaw(id) ==
    [stream_id |-> id, status |-> StatusOf(id), ready |-> StatusOf(id) = "ready"]

\* Query readiness: { stream_id, status: "ready" | "not_found", ready }
Readiness(id) ==
    [stream_id |-> id,
     status |-> IF StatusOf(id) = "ready" THEN "ready" ELSE "not_found",
     ready |-> StatusOf(id) = "ready"]

\* getStreamStatus(streamId): throws unless response.ok, else response.json()
GetStreamStatus ==
    /\ \E streamId \in RequestIds : \E ok \in BOOLEAN :
         reply' = IF ok
                  THEN [op |-> "getStreamStatus", id |-> streamId, result |-> "returns",
                        body |-> Readiness(streamId)]
                  ELSE Reply("getStreamStatus", streamId, "throws")
    /\ UNCHANGED <<registry, issued, staged, now, consumed>>
    /\ UNCHANGED notRegistryVars

RegistryNext ==
    \/ Register \/ MarkReady \/ BeginConsume \/ Finish \/ Sweep \/ ClockTick
    \/ GetStreamStatus

\* No streaming upload on the page.
RegistryIdle == RegistryInit

-----------------------------------------------------------------------------

vars == <<streamVars, uploadVars, playerVars, sidebarVars, registryVars>>

Init == StreamInit /\ UploadIdle /\ PlayerIdle /\ SidebarIdle /\ RegistryIdle

Next == StreamNext

\* streamAsciiFrames on one response body
Spec == Init /\ [][Next]_vars

\* The page: configuration load, drops, uploads, reset
InitUpload == StreamIdle /\ UploadInit /\ PlayerIdle /\ SidebarIdle /\ RegistryIdle

SpecUpload == InitUpload /\ [][UploadNext]_vars

\* The player over its toggles, fps changes and timer ticks
InitPlayer == StreamIdle /\ UploadIdle /\ PlayerInit /\ SidebarIdle /\ RegistryIdle

SpecPlayer == InitPlayer /\ [][PlayerNext]_vars

\* The settings sidebar: load, edits of the number fields, save and reset
InitSidebar == StreamIdle /\ UploadIdle /\ PlayerIdle /\ SidebarInit /\ RegistryIdle

SpecSidebar == InitSidebar /\ [][SidebarNext]_vars

\* The registry under any interleaving of its operations, sweeps and queries
InitRegistry == StreamIdle /\ UploadIdle /\ PlayerIdle /\ SidebarIdle /\ RegistryInit

SpecRegistry == InitRegistry /\ [][RegistryNext]_vars

-----------------------------------------------------------------------------
(* Properties of streamAsciiFrames *)

IsPrefix(a, b) == Len(a) <= Len(b) /\ a = SubSeq(b, 1, Len(a))

Terminal == {"onComplete", "onError"}

TerminalCalls == {k \in 1..Len(calls) : calls[k].cb \in Terminal}

FrameCalls == SelectSeq(calls, LAMBDA c : c.cb = "onFrame")

Terminated == TerminalCalls # {}

\* No content row begins like a protocol line or equals END_FRAME.
NoMarkerRows(s) ==
    \A i \in 1..Len(s.frames) : \A j \in 1..Len(s.frames[i].rows) :
        LET r == s.frames[i].rows[j]
        IN  /\ ~StartsWith(r, FRAME_PREFIX)
            /\ ~StartsWith(r, COMPLETE_PREFIX)
            /\ ~StartsWith(r, ERROR_PREFIX)
            /\ r # END_FRAME

\* Frames with plain rows, then one trailer, every line newline-terminated,
\* nothing after the trailer.
WellFormed(s) ==
    NoMarkerRows(s) /\ s.trailer # "none" /\ s.terminated /\ ~s.extra

\* The onFrame calls the frames of s call for, in emission order.
ExpectedFrames(s) ==
    [i \in 1..Len(s.frames) |-> OnFrame(s.frames[i].index, Join(s.frames[i].rows))]

\* The lines of s that end with a newline.
CompleteLines(s) ==
    IF s.terminated THEN SessionLines(s)
    ELSE SubSeq(SessionLines(s), 1, Len(SessionLines(s)) - 1)

\* The number of lines of s before the FRAME line of its i-th frame.
RECURSIVE FrameStart(_, _)
FrameStart(fs, i) ==
    IF i = 1 THEN 0 ELSE FrameStart(fs, i - 1) + Len(fs[i - 1].rows) + 2

\* The positions, among the lines of s, of the content rows of its frames.
RowPositions(s) ==
    {p \in 1..Len(SessionLines(s)) : \E i \in 1..Len(s.frames) :
        /\ p > FrameStart(s.frames, i) + 1
        /\ p <= FrameStart(s.frames, i) + 1 + Len(s.frames[i].rows)}

\* C1: round trip.  When the call has resolved on a well-formed stream of N
\* frames ending in COMPLETE:<N>, onFrame has been invoked exactly N times, in
\* emission order, each time with the frame's index and its rows joined by
\* newlines, however the body was split into chunks.
C1_RoundTrip ==
    (pc = "done" /\ WellFormed(session) /\ session.trailer = "complete")
        => FrameCalls = ExpectedFrames(session)

\* C2: whenever onComplete(total) is invoked on a well-formed stream, total is
\* the number of FRAME blocks of the stream and the number of onFrame calls
\* made before it.
C2_CompleteMatchesFrames ==
    WellFormed(session) =>
        \A k \in 1..Len(calls) : calls[k].cb = "onComplete" =>
            /\ calls[k].total = Len(session.frames)
            /\ calls[k].total = Cardinality({j \in 1..(k - 1) : calls[j].cb = "onFrame"})

\* C3: once onComplete or onError has been invoked, no callback is invoked any
\* more and no further chunk is read; the terminating call is the last call and
\* the only terminating one, also when lines follow it in the same chunk, and
\* with it the call has ended (resolved, or rejected if the callback threw).
C3_NothingAfterEnd ==
    [][ /\ Terminated => (calls' = calls /\ pos' = pos /\ examined' = examined)
        /\ Terminated' => (TerminalCalls' = {Len(calls')} /\ pc' \in {"done", "thrown"}) ]_vars

\* C3 witness: the call has ended on a terminating line while the body held
\* more lines after it, all of them already handed out by read().
C3_Witness ==
    /\ session.extra
    /\ pc = "done"
    /\ Terminated
    /\ pos = Len(stream)

\* C4: k complete FRAME blocks followed by an ERROR block give exactly k
\* onFrame calls, then exactly one onError call, and never onComplete.
C4_FramesThenError ==
    (pc = "done" /\ WellFormed(session) /\ session.trailer = "error")
        => [k \in 1..Len(calls) |-> calls[k].cb]
             = [k \in 1..(Len(session.frames) + 1) |->
                    IF k <= Len(session.frames) THEN "onFrame" ELSE "onError"]

\* C5: partial lines are buffered.  The lines looped over are whole lines of
\* the body, in order, each once; while the call is reading, every byte handed
\* out so far is in exactly one place: a line already looped over, the buffer
\* (which holds no newline), or the decoder.
C5_PartialLinesBuffered ==
    /\ IsPrefix(examined, CompleteLines(session))
    /\ \A i \in 1..Len(buffer) : buffer[i] # NL
    /\ pc = "read" =>
         Encode(WireLines(examined) \o buffer) \o pending = SubSeq(stream, 1, pos)

\* C5 witness: lines have been looped over while a partial line is held in the
\* buffer and a partial glyph in the decoder.
C5_Witness ==
    /\ pc = "read"
    /\ Len(examined) >= 2
    /\ buffer # <<>>
    /\ pending # <<>>

\* C6: a content row never triggers a callback: the session ends only on a
\* line that is not a content row, and every onFrame call carries the index of
\* a FRAME line of the stream.
C6_RowsAreContent ==
    /\ Terminated => Len(examined) \notin RowPositions(session)
    /\ \A k \in 1..Len(calls) : calls[k].cb = "onFrame" =>
         \/ \E i \in 1..Len(session.frames) : calls[k].index = session.frames[i].index
         \/ session.extra /\ calls[k].index = 9

\* C7: onError is invoked with exactly the message line that follows ERROR:.
C7_ErrorCarriesMessage ==
    (NoMarkerRows(session) /\ session.trailer = "error") =>
        \A k \in 1..Len(calls) : calls[k].cb = "onError" => calls[k].msg = session.message

\* C8: on a well-formed stream at most one terminating callback is ever
\* invoked, and when the call has resolved exactly one has been: onComplete for
\* a COMPLETE trailer, onError for an ERROR trailer.
C8_ExactlyOneTerminator ==
    WellFormed(session) =>
        /\ Cardinality(TerminalCalls) <= 1
        /\ pc = "done" =>
             /\ Cardinality(TerminalCalls) = 1
             /\ calls[Len(calls)].cb =
                  (IF session.trailer = "complete" THEN "onComplete" ELSE "onError")

\* C8 witness: a two-frame stream ending in ERROR has resolved after a chunking
\* that split a frame.
C8_Witness ==
    /\ pc = "done"
    /\ WellFormed(session)
    /\ session.trailer = "error"
    /\ Len(session.frames) = 2
    /\ Len(FrameCalls) = 1
    /\ Terminated

-----------------------------------------------------------------------------
(* Properties of the upload path *)

\* The file handed to the last call of onDrop.
DroppedFile == onDropLocals.acceptedFiles[1]

IsImageFile(f) == StartsWith(f.type, IMAGE_SLASH)

\* The configured maximum for the media type of f.
ConfiguredMax(cfg, f) ==
    IF IsImageFile(f) THEN cfg[1].image_max_size ELSE cfg[1].video_max_size

\* The documented default maximum for the media type of f, in bytes.
DocumentedMax(f) ==
    (IF IsImageFile(f) THEN DocImageLimitMB ELSE DocVideoLimitMB) * 1024 * 1024

\* This step is a call of onDrop with a file that rejects it: onError once, no
\* uploadMedia, upload state idle.
DropRejected ==
    /\ errorCalls' = errorCalls + 1
    /\ uploadCalls' = uploadCalls
    /\ upload' = upload
    /\ uploadProgress' = uploadProgress
    /\ ~uploadProgress'.isUploading

\* This step is a call of onDrop that starts the upload.
DropAccepted ==
    /\ uploadCalls' = uploadCalls + 1
    /\ errorCalls' = errorCalls
    /\ upload'.state = "sent"
    /\ uploadProgress'.isUploading

\* C9: with a configuration loaded (limits within the documented range of 1 MB
\* to 500 MB), a dropped file larger than the configured maximum of its media type (image_max_size when its MIME type starts with
\* 'image/', video_max_size otherwise) is rejected: onError once, uploadMedia
\* not called, isUploading still false; a file of at most the limit is uploaded.
C9_SizeLimitEnforced ==
    [][ (drops' = drops + 1 /\ onDropLocals'.acceptedFiles # <<>> /\ config # <<>>) =>
          IF DroppedFile'.size > ConfiguredMax(config, DroppedFile')
          THEN DropRejected ELSE DropAccepted ]_vars

\* C9 witness: an image one byte over the backend's 1 MB image limit has been
\* rejected, and nothing was uploaded.
C9_Witness ==
    /\ configLoad = "loaded"
    /\ ~configUpdated
    /\ drops = 1
    /\ onDropLocals.acceptedFiles # <<>>
    /\ IsImageFile(DroppedFile)
    /\ DroppedFile.size = 1 * MB + 1
    /\ onDropLocals.maxSize = 1 * MB
    /\ errorCalls = 1
    /\ uploadCalls = 0
    /\ ~uploadProgress.isUploading
    /\ error # <<>>

\* C10: after the initial configuration load has failed (and no configuration
\* was saved since), a dropped file is checked against the documented defaults,
\* 5 MB for images and 10 MB for videos: larger files are rejected, others are
\* uploaded.
C10_DefaultLimits ==
    [][ (drops' = drops + 1 /\ onDropLocals'.acceptedFiles # <<>>
            /\ configLoad = "failed" /\ ~configUpdated) =>
          IF DroppedFile'.size > DocumentedMax(DroppedFile')
          THEN DropRejected ELSE DropAccepted ]_vars

\* C10 witness: the load has failed, the default config is installed, and a
\* video one byte over 10 MB has been rejected.
C10_Witness ==
    /\ configLoad = "failed"
    /\ ~configUpdated
    /\ config = <<DefaultConfig>>
    /\ drops = 1
    /\ onDropLocals.acceptedFiles # <<>>
    /\ ~IsImageFile(DroppedFile)
    /\ DroppedFile.size = 10 * MB + 1
    /\ errorCalls = 1
    /\ uploadCalls = 0
    /\ ~uploadProgress.isUploading

-----------------------------------------------------------------------------
(* Properties of AsciiPlayer *)

\* C11: play/pause of the player.  After every step: while paused no interval
\* is active; a step that starts and ends paused leaves the displayed frame
\* alone; a toggle (pause or resume) leaves the displayed frame alone, so
\* playback resumes from the frame shown at the pause; and at most one
\* interval is active, whatever toggles and fps changes came before.
C11_PlayPause ==
    [][ /\ (mounted' /\ ~isPlaying') => timers' = {}
        /\ (~isPlaying /\ ~isPlaying') => currentFrame' = currentFrame
        /\ (isPlaying' # isPlaying) => currentFrame' = currentFrame
        /\ Cardinality(timers') <= 1 ]_vars

\* C11 witness: the player has been paused, resumed under another fps and
\* paused again on a later frame; no interval is left.
C11_Witness ==
    /\ mounted
    /\ ~isPlaying
    /\ currentFrame > 0
    /\ timerSeq >= 3
    /\ fps # DefaultFps
    /\ effectDeps = <<isPlaying, framesLength, fps>>
    /\ timers = {}
    /\ intervalRef = 0

-----------------------------------------------------------------------------
(* Properties of ConfigSidebar *)

\* x is a number within lo..hi
InRange(x, lo, hi) == x # <<>> /\ x[1] >= lo /\ x[1] <= hi

\* C12: every config the sidebar passes to updateConfig has default_fps
\* within 1..60 and ascii_width within 20..200, whatever was typed into the
\* fields.
C12_SubmittedInRange ==
    submitted # <<>> =>
        /\ InRange(submitted[1].default_fps, 1, 60)
        /\ InRange(submitted[1].ascii_width, 20, 200)

-----------------------------------------------------------------------------
(* Properties of the Stream Registry *)

\* A step of begin_consume that is not a repetition of the same failed request.
BeginConsumeStep ==
    /\ reply'.op = "begin_consume"
    /\ (reply' # reply \/ consumed' # consumed)

\* A step of the background sweep.
SweepStep == reply'.op = "sweep" /\ registry' # registry

\* A step in which getStreamStatus returns a value.
StatusStep ==
    /\ reply'.op = "getStreamStatus"
    /\ reply'.result = "returns"
    /\ reply' # reply

\* C13: for every session id begin_consume succeeds at most once, over any
\* interleaving of requests; a begin_consume on an id that was already given
\* to a consumer fails with ConflictError and changes nothing.
C13_AtMostOneConsumer ==
    [][ /\ \A id \in Ids : consumed'[id] <= 1
        /\ (BeginConsumeStep /\ reply'.id \in Ids /\ consumed[reply'.id] >= 1) =>
              /\ reply'.result = "ConflictError"
              /\ consumed' = consumed
              /\ registry' = registry ]_vars

\* C13 witness: a second begin_consume arrived while the first consumer was
\* still streaming, and was refused.
C13_Witness ==
    /\ reply.op = "begin_consume"
    /\ reply.result = "ConflictError"
    /\ reply.id \in Ids
    /\ consumed[reply.id] = 1
    /\ StatusOf(reply.id) = "consuming"
    /\ reply.id \in staged

\* C14: a sweep expires and evicts every session older than the TTL that is
\* registered or ready; begin_consume on an expired id is answered as not
\* found and changes nothing; and no step (the sweep included) expires a
\* session that is being consumed.
C14_TtlExpiry ==
    [][ /\ SweepStep =>
              \A id \in Ids : Stale(id) =>
                  registry'[id].status = "expired" /\ id \notin staged'
        /\ (BeginConsumeStep /\ StatusOf(reply'.id) = "expired") =>
              /\ reply'.result = "NotFoundError"
              /\ registry' = registry
              /\ consumed' = consumed
        /\ \A id \in Ids : StatusOf(id) = "consuming" =>
              /\ registry'[id].status \in {"consuming", "completed", "failed"}
              /\ (registry'[id].status = "consuming" => id \in staged') ]_vars

\* C14 witness: a sweep has expired and evicted a session left unconsumed past
\* the TTL, a begin_consume on its id was answered as not found, and a session
\* as old that is being consumed is still consuming, its file held.
C14_Witness ==
    \E a \in Ids : \E b \in Ids :
        /\ StatusOf(a) = "expired"
        /\ a \notin staged
        /\ reply = Reply("begin_consume", a, "NotFoundError")
        /\ StatusOf(b) = "consuming"
        /\ now - registry[b].created_at > TTL
        /\ b \in staged

\* C15: every value getStreamStatus returns has status "ready" or
\* "not_found"; for an id the registry does not know it has status
\* "not_found" and ready false.
C15_ReadinessStatus ==
    [][ StatusStep =>
          /\ reply'.body.status \in {"ready", "not_found"}
          /\ ~Known(reply'.id) =>
                reply'.body.status = "not_found" /\ reply'.body.ready = FALSE ]_vars

\* C15 witness: readiness of an unknown id was queried while another session
\* was ready, and came back not found.
C15_Witness ==
    /\ reply.op = "getStreamStatus"
    /\ reply.result = "returns"
    /\ ~Known(reply.id)
    /\ reply.body = [stream_id |-> reply.id, status |-> "not_found", ready |-> FALSE]
    /\ \E id \in Ids : StatusOf(id) = "ready"

-----------------------------------------------------------------------------
(* Delivery order of streamAsciiFrames *)

\* The frames on the wire of s, in emission order, as the onFrame calls they
\* call for: the frames of s, then the frame block of the text that follows
\* the trailer position, if s carries it.
EmittedFrames(s) ==
    ExpectedFrames(s) \o (IF s.extra THEN <<OnFrame(9, <<>>)>> ELSE <<>>)

\* C16: on a stream whose frames have distinct increasing indexes and whose
\* content rows neither equal END_FRAME nor begin with a marker prefix, under
\* any chunking, the indexes passed to onFrame are strictly increasing (so no
\* frame is delivered twice) and every onFrame call carries the index and the
\* complete rows, joined by newlines, of one emitted frame.
C16_InOrderSubsequence ==
    NoMarkerRows(session) =>
        \A k \in 1..Len(FrameCalls) :
            /\ k > 1 => FrameCalls[k].index > FrameCalls[k - 1].index
            /\ \E i \in 1..Len(EmittedFrames(session)) :
                  FrameCalls[k] = EmittedFrames(session)[i]

\* C16 witness: a stream of two frames has been read to its COMPLETE line in
\* chunks that split the first frame; the second frame alone was delivered,
\* whole.
C16_Witness ==
    /\ NoMarkerRows(session)
    /\ Len(session.frames) = 2
    /\ session.trailer = "complete"
    /\ pc = "done"
    /\ FrameCalls = <<ExpectedFrames(session)[2]>>
    /\ calls[Len(calls)].cb = "onComplete"

-----------------------------------------------------------------------------
(* Properties of an upload attempt *)

\* The uploadMedia promise has settled and the continuation of onDrop has not
\* run yet.
Settled == upload.state \in {"resolved", "rejected"}

\* C17: once the uploadMedia promise has settled (resolved with success true,
\* resolved with success false, or rejected), the next step is the
\* continuation of onDrop and it leaves MediaUpload idle: isUploading false,
\* progress 0, empty message, mediaType null, no promise pending, the
\* dropzone enabled again.
C17_ResetAfterUpload ==
    [][ Settled =>
          /\ uploadProgress'.isUploading = FALSE
          /\ uploadProgress'.progress = 0
          /\ uploadProgress'.message = ""
          /\ uploadProgress'.mediaType = "null"
          /\ upload'.state = "idle"
          /\ ~DropzoneDisabled' ]_vars

\* C17 witness: an upload was rejected, onError has reported it, and the
\* state is idle again.
C17_Witness ==
    /\ uploadCalls = 1
    /\ completeCalls = 0
    /\ error = NetworkFailure
    /\ upload.state = "idle"
    /\ uploadProgress = [isUploading |-> FALSE, progress |-> 0, message |-> "",
                         mediaType |-> "null"]

\* C18: while MediaUpload is uploading no drop is handled and uploadMedia is
\* not called; MediaUpload is uploading from the call of uploadMedia until its
\* state is reset; so at most one uploadMedia call is in flight at any time.
C18_OneUploadInFlight ==
    [][ /\ uploadProgress.isUploading => (drops' = drops /\ uploadCalls' = uploadCalls)
        /\ upload'.state # "idle" => uploadProgress'.isUploading
        /\ inFlight' >= 1 => uploadProgress'.isUploading
        /\ inFlight' <= 1 ]_vars

\* C18 witness: a second upload is in flight, started after the first one was
\* over; the dropzone is disabled.
C18_Witness ==
    /\ uploadCalls = 2
    /\ inFlight = 1
    /\ upload.state = "sent"
    /\ uploadProgress.isUploading
    /\ DropzoneDisabled

\* A step in which the uploadMedia promise settles.
SettleStep == upload.state = "sent" /\ upload'.state # "sent"

\* C19: the uploadMedia promise settles once: a pending promise resolves or
\* rejects, and a settled one is only consumed.  It resolves exactly when the
\* status is 2xx and the body parses; it rejects on another status, on an
\* unparseable body and on a network error, each with its own message.  In
\* the step that settles it the progress callback has been called with 100.
C19_SettlesOnceAfterFullProgress ==
    [][ /\ SettleStep =>
              /\ upload'.state \in {"resolved", "rejected"}
              /\ inFlight' = inFlight - 1
              /\ upload'.state = "resolved" <=>
                    (upload'.status >= 200 /\ upload'.status < 300 /\ upload'.parsed)
              /\ upload'.state = "rejected" =>
                    upload'.reason =
                        IF upload'.status = 0 THEN NetworkFailure
                        ELSE IF upload'.status >= 200 /\ upload'.status < 300
                             THEN ParseFailure
                             ELSE StatusFailure(upload'.status)
              /\ uploadProgress'.isUploading
              /\ uploadProgress'.progress = 100
        /\ Settled => (upload'.state = "idle" /\ inFlight' = inFlight) ]_vars

\* C19 witness: a 2xx response whose body does not parse has rejected the
\* promise, and the progress stands at 100.
C19_Witness ==
    /\ upload.state = "rejected"
    /\ upload.status = 200
    /\ ~upload.parsed
    /\ upload.reason = ParseFailure
    /\ uploadProgress.progress = 100
    /\ inFlight = 0

\* C20: the continuation of onDrop calls onUploadComplete once, and onError
\* not at all, if uploadMedia resolved with success true; otherwise it calls
\* onError once and onUploadComplete not at all.  No other step calls
\* onUploadComplete, and the only other calls of onError are those of drops
\* that were refused without an upload.
C20_ExactlyOneOutcome ==
    [][ /\ (Settled /\ upload.state = "resolved" /\ upload.result.success) =>
              (completeCalls' = completeCalls + 1 /\ errorCalls' = errorCalls)
        /\ (Settled /\ ~(upload.state = "resolved" /\ upload.result.success)) =>
              (errorCalls' = errorCalls + 1 /\ completeCalls' = completeCalls)
        /\ ~Settled =>
              /\ completeCalls' = completeCalls
              /\ errorCalls' # errorCalls =>
                    (drops' = drops + 1 /\ uploadCalls' = uploadCalls) ]_vars

\* C20 witness: the first upload resolved with success false and was reported
\* through onError alone; the second resolved with success true and was
\* reported through onUploadComplete alone.
C20_Witness ==
    /\ uploadCalls = 2
    /\ drops = 2
    /\ errorCalls = 1
    /\ completeCalls = 1
    /\ upload.state = "idle"
    /\ HasContent

-----------------------------------------------------------------------------
(* Properties of the exits of streamAsciiFrames *)

\* No newline-terminated line of s begins like a COMPLETE or an ERROR line.
NoTrailerLine(s) ==
    \A i \in 1..Len(CompleteLines(s)) :
        /\ ~StartsWith(CompleteLines(s)[i], COMPLETE_PREFIX)
        /\ ~StartsWith(CompleteLines(s)[i], ERROR_PREFIX)

\* The text of s after its last newline.
Leftover(s) == IF s.terminated THEN <<>> ELSE SessionLines(s)[Len(SessionLines(s))]

\* C21: when the body ends and none of its newline-terminated lines is a
\* COMPLETE or an ERROR line, the call resolves with neither onComplete nor
\* onError invoked; the lines examined are the newline-terminated ones, and the
\* text after the last newline stays in the buffer unexamined.
C21_EndWithoutTrailer ==
    (exitPath = "break" /\ NoTrailerLine(session)) =>
        /\ pc = "done"
        /\ TerminalCalls = {}
        /\ examined = CompleteLines(session)
        /\ buffer = Leftover(session)

\* C21 witness: a two-frame stream whose COMPLETE trailer lacks the final
\* newline has ended: both frames were delivered, the trailer is still in the
\* buffer and no terminating callback was invoked.
C21_Witness ==
    /\ exitPath = "break"
    /\ pc = "done"
    /\ session.trailer = "complete"
    /\ ~session.terminated
    /\ Len(session.frames) = 2
    /\ StartsWith(buffer, COMPLETE_PREFIX)
    /\ Len(FrameCalls) = 2
    /\ TerminalCalls = {}

\* C22: once a reader was obtained it holds the lock exactly while the loop
\* runs: after the end of the body, a return after COMPLETE or ERROR, a
\* rejected read() and a throwing callback alike, the lock has been released.
C22_LockReleased ==
    response = "ok" =>
        /\ pc = "read" => locked
        /\ pc \in {"done", "thrown"} =>
             /\ ~locked
             /\ exitPath \in {"break", "return", "read_throws", "callback_throws"}

\* C22 witness: the callback for the second frame of a stream threw after the
\* first frame had been delivered; the call is rejected and the lock released.
C22_Witness ==
    /\ response = "ok"
    /\ pc = "thrown"
    /\ exitPath = "callback_throws"
    /\ Len(calls) = 2
    /\ calls[2].cb = "onFrame"
    /\ ~locked

\* C23: when fetch answers with a non-OK status or without a body,
\* streamAsciiFrames throws before it reads anything: nothing was read,
\* buffered or examined, no callback was invoked and no lock is held.
C23_ThrowsBeforeReading ==
    response \in {"not_ok", "no_body"} =>
        /\ pc = "thrown"
        /\ exitPath = "throw"
        /\ pos = 0
        /\ buffer = <<>>
        /\ examined = <<>>
        /\ calls = <<>>
        /\ ~locked

\* C23 witness: the request for a two-frame stream was answered with a non-OK
\* status; the call is rejected and no callback was invoked.
C23_Witness ==
    /\ response = "not_ok"
    /\ pc = "thrown"
    /\ Len(session.frames) = 2
    /\ session.trailer = "complete"
    /\ calls = <<>>

-----------------------------------------------------------------------------
(* Properties of MainContent's render *)

\* C24: the upload form and the result view are never shown together and one
\* of them always is; the form is shown exactly when frames and asciiArt are
\* both empty; the player is shown only inside the result view, for a video
\* with at least one frame.
C24_FormXorResult ==
    /\ ShowsUploadForm # ShowsResult
    /\ ShowsUploadForm <=> (frames = <<>> /\ asciiArt = "")
    /\ ShowsPlayer => (mediaType = "video" /\ frames # <<>> /\ ~ShowsUploadForm)
    /\ ShowsImage => ~ShowsUploadForm

\* C24 witness: an uploaded image has been converted; the result view shows
\* its art, without form and without player.
C24_Witness ==
    /\ completeCalls = 1
    /\ mediaType = "image"
    /\ frames = <<>>
    /\ asciiArt # ""
    /\ ShowsResult
    /\ ShowsImage
    /\ ~ShowsPlayer
    /\ ~ShowsUploadForm

\* A step of resetContent: the result view gives way to the form.
ResetStep == ShowsResult /\ ShowsUploadForm'

\* C25: an error message is shown only while no converted content is: a
\* successful upload and a reset leave the error empty, and handleError is
\* called only while the upload form is shown.
C25_ErrorOnlyWithForm ==
    [][ /\ ShowsError' => (frames' = <<>> /\ asciiArt' = "")
        /\ completeCalls' > completeCalls => error' = <<>>
        /\ ResetStep => error' = <<>>
        /\ errorCalls' > errorCalls => (ShowsUploadForm /\ ShowsUploadForm') ]_vars

\* C25 witness: a first drop ended in an error, a second one was converted;
\* the content is shown and the error is gone.
C25_Witness ==
    /\ errorCalls = 1
    /\ completeCalls = 1
    /\ ShowsResult
    /\ ~ShowsError

=============================================================================
